---- MODULE Spec2Model ----
(***************************************************************************)
(* Model of the Tencent COS storage client (package cos):                  *)
(*   ListObjectsPaginated, ListAllObjects, HeadObject and the tagging      *)
(*   fan-out they run on a bounded task group; client construction        *)
(*   (buildBaseURL, CheckAndCreateBucket), PutObject, the imagex           *)
(*   compatibility stubs and parseCosTime.                                 *)
(* Strings the code inspects (object keys, ETags, headers) are sequences   *)
(* of one-character strings, so that HasSuffix / Trim / ParseInt are       *)
(* computed the way the code computes them.                                *)
(***************************************************************************)
EXTENDS Bags, FiniteSets, Integers, Sequences, TLC

\* ------------------------------------------------------------------ bounds
\* Number of real (non-marker) objects on the long remote page.
MaxPage == 6
\* Number of directory markers on the "almost full" page ListAllObjects sees.
MarkersPerPage == 1

\* -------------------------------------------------------- program constants
\* taskgroup.NewTaskGroup(ctx, 5)
TagConcurrencyBroken == 5 + 1
TagConcurrency == 5
defaultPageSize == 100
maxListObjects == 10000
\* expire := int64(7 * 24 * 60 * 60)
DefaultExpire == 604800

\* ------------------------------------------------------------------ strings
HasSuffix(s, suffix) ==
    /\ Len(s) >= Len(suffix)
    /\ SubSeq(s, Len(s) - Len(suffix) + 1, Len(s)) = suffix

RECURSIVE TrimLeft(_, _)
TrimLeft(s, c) == IF s # <<>> /\ Head(s) = c THEN TrimLeft(Tail(s), c) ELSE s

RECURSIVE TrimRight(_, _)
TrimRight(s, c) ==
    IF s # <<>> /\ s[Len(s)] = c THEN TrimRight(SubSeq(s, 1, Len(s) - 1), c) ELSE s

\* strings.Trim(s, "\"")
Trim(s, c) == TrimRight(TrimLeft(s, c), c)

Digits == <<"0", "1", "2", "3", "4", "5", "6", "7", "8", "9">>
IsDigit(c) == \E d \in 1..10 : Digits[d] = c
DigitVal(c) == (CHOOSE d \in 1..10 : Digits[d] = c) - 1

RECURSIVE ParseDigits(_, _)
ParseDigits(s, acc) ==
    IF s = <<>> THEN acc ELSE ParseDigits(Tail(s), acc * 10 + DigitVal(Head(s)))

\* size, _ := strconv.ParseInt(h, 10, 64): the error is dropped, so a missing
\* or malformed header yields 0.
ParseIntOrZero(s) ==
    LET body == IF s # <<>> /\ Head(s) \in {"+", "-"} THEN Tail(s) ELSE s
        ok   == body # <<>> /\ \A i \in 1..Len(body) : IsDigit(body[i])
    IN  IF ~ok THEN 0
        ELSE IF Head(s) = "-" THEN 0 - ParseDigits(body, 0) ELSE ParseDigits(body, 0)

\* ------------------------------------------------------------------- errors
NoErr == [kind |-> "nil", msg |-> "", status |-> 0]
Errorf(msg) == [kind |-> "errorString", msg |-> msg, status |-> 0]
Wrapf(msg, e) == [kind |-> "wrapError", msg |-> msg, status |-> 0, inner |-> e]
CosErr(code) == [kind |-> "cos.ErrorResponse", msg |-> "", status |-> code]
NetErr == [kind |-> "net", msg |-> "i/o timeout", status |-> 0]
CtxCanceled == [kind |-> "context", msg |-> "context canceled", status |-> 0]
\* storage.ErrObjectNotFound
ErrObjectNotFound == [kind |-> "storage", msg |-> "object not found", status |-> 0]

\* What the remote SDK can return as an error.
RemoteErrs == {CosErr(404), CosErr(403), NetErr}

\* cosv5.IsNotFoundError: an *ErrorResponse whose HTTP status is 404.
IsNotFoundError(e) == e.kind = "cos.ErrorResponse" /\ e.status = 404

\* errors.Is(e, target) through %w wrapping.
RECURSIVE ErrorsIs(_, _)
ErrorsIs(e, target) ==
    \/ e = target
    \/ e.kind = "wrapError" /\ ErrorsIs(e.inner, target)

\* The two call-site validation failures of ListObjectsPaginated.
ErrInputNil == Errorf("input cannot be nil")
ErrPageSize == Errorf("page size must be positive")
InvalidArgument == {ErrInputNil, ErrPageSize}

\* ------------------------------------------------------------ remote content
Obj(key, size, etag) == [Key |-> key, Size |-> size, ETag |-> etag]

DirMarker == Obj(<<"d", "/">>, 0, <<>>)
FileA     == Obj(<<"a">>, 10, <<"\"", "e", "1", "\"">>)
EmptyFile == Obj(<<"e">>, 0, <<"e", "2">>)
SlashFile == Obj(<<"s", "/">>, 3, <<"\"", "\"">>)
NumObj(i) == Obj(<<"o", ToString(i)>>, i, <<"x">>)

\* A page of n real objects with one directory marker in second position.
LongContents(n) ==
    [i \in 1..(n + 1) |-> IF i = 2 THEN DirMarker ELSE NumObj(IF i = 1 THEN 1 ELSE i - 1)]

PageContents ==
    { <<>>,
      <<DirMarker>>,
      <<DirMarker, FileA>>,
      <<SlashFile, DirMarker, EmptyFile>> }

Cursors == {<<>>, <<"m", "1">>}

\* The ListBucketResult of Bucket.Get: the remote is free to answer anything.
PageResults ==
    [Contents : PageContents, NextMarker : Cursors, IsTruncated : BOOLEAN]
        \cup {[Contents |-> LongContents(MaxPage), NextMarker |-> <<"m", "1">>,
                IsTruncated |-> TRUE]}

\* Tags the remote stores for a key (GetTagging's TagSet).
Tag(k, v) == [Key |-> k, Value |-> v]
RemoteTagSet(key) ==
    CASE key = <<"a">>       -> <<Tag("k1", "v1"), Tag("k2", "v2")>>
      [] key = <<"e">>       -> <<Tag("k1", "v1"), Tag("k1", "v9")>>
      [] key = <<"s", "/">>  -> <<>>
      [] OTHER               -> <<Tag("name", key[Len(key)])>>

\* cosTagsToMap: nil for an empty list, otherwise m[tag.Key] = tag.Value in
\* list order (a later duplicate overwrites).  A map is a set of <<k, v>>
\* pairs; the nil map is {}.
NilMap == {}
RECURSIVE PutAll(_, _)
PutAll(m, tags) ==
    IF tags = <<>> THEN m
    ELSE PutAll({p \in m : p[1] # Head(tags).Key}
                    \cup {<<Head(tags).Key, Head(tags).Value>>},
                Tail(tags))
cosTagsToMap(tags) == IF Len(tags) = 0 THEN NilMap ELSE PutAll({}, tags)

\* ----------------------------------------------------------------- FileInfo
NoURL == <<>>
FileInfo(obj) ==
    [Key |-> obj.Key, ETag |-> Trim(obj.ETag, "\""), Size |-> obj.Size,
     Tagging |-> NilMap, URL |-> NoURL]

\* if obj.Size == 0 && strings.HasSuffix(obj.Key, "/") { continue }
IsDirMarkerPrefix(obj) == obj.Size = 0 /\ obj.Key # <<>> /\ Head(obj.Key) = "/"
IsDirMarker(obj) == obj.Size = 0 /\ HasSuffix(obj.Key, <<"/">>)

\* The filtering loop of ListObjectsPaginated: markers are skipped, every other
\* entry is appended, in page order, as a fresh FileInfo.
FilterContents(contents) ==
    LET kept == SelectSeq(contents, LAMBDA obj : ~IsDirMarker(obj))
    IN  [i \in DOMAIN kept |-> FileInfo(kept[i])]

\* Object.GetPresignedURL: the URL embeds the key and the validity.
Presigned(key, expire) == <<"GET", key, expire>>
\* GetObjectUrl's expiry: 7 days unless opt.Expire > 0.
UrlExpire(o) == IF o.Expire > 0 THEN o.Expire ELSE DefaultExpire

\* -------------------------------------------------------------------- input
NilInput == [isNil |-> TRUE]
Input(prefix, size, cursor) ==
    [isNil |-> FALSE, Prefix |-> prefix, PageSize |-> size, Cursor |-> cursor]
Inputs ==
    { NilInput,
      Input(<<"p">>, 0, <<>>),
      Input(<<"p">>, -1, <<>>),
      Input(<<"p">>, 2, <<"m", "1">>) }

GetOption(t, u, e) == [WithTagging |-> t, WithURL |-> u, Expire |-> e]
Options ==
    { GetOption(FALSE, FALSE, 0), GetOption(TRUE, FALSE, 0),
      GetOption(FALSE, TRUE, 0), GetOption(TRUE, TRUE, 60) }

NilOut == [isNil |-> TRUE]
Output(fs, cursor, trunc) ==
    [isNil |-> FALSE, Files |-> fs, Cursor |-> cursor, IsTruncated |-> trunc]

NoCalls == [list |-> 0, tag |-> 0, presign |-> 0, head |-> 0,
            isExist |-> 0, putBucket |-> 0, putObject |-> 0]
NilURL == [isNil |-> TRUE]
NilClient == [isNil |-> TRUE]
NoReq == [isNil |-> TRUE]

VARIABLES
    pc,               \* position of the running operation
    op,               \* operation the caller invoked
    input,            \* ListObjectsPaginatedInput (or NilInput)
    opt,              \* storage.GetOption the opts build
    req,              \* arguments of the last Bucket.Get request
    result,           \* ListBucketResult of the last Bucket.Get
    remoteErr,        \* error the remote returned to the last list/head call
    files,            \* files slice of ListObjectsPaginated
    idx,              \* loop index (task spawn loop, URL loop)
    tstate,           \* per task: "new", "spawned", "inflight", "done", "failed", "skipped"
    fetchCtx,         \* per task: the context its GetTagging call was given
    groupErr,         \* first error the task group recorded
    groupCancelled,   \* the task group's derived context was cancelled
    callerCancelled,  \* the caller's ctx was cancelled
    out,              \* returned value
    err,              \* returned error
    calls,            \* remote calls issued so far, by kind
    allFiles,         \* ListAllObjects: accumulated files (a bag: order is not kept)
    cursor,           \* ListAllObjects: cursor
    lastPage,         \* ListAllObjects: Cursor and IsTruncated of the last output
    objectKey,        \* HeadObject / PutObject: objectKey
    fileInfo,         \* HeadObject: fileInfo
    bucketName,       \* getCosClient / buildBaseURL: bucketName
    endpoint,         \* getCosClient / buildBaseURL: endpoint
    region,           \* getCosClient / buildBaseURL: region
    baseURL,          \* *cosv5.BaseURL buildBaseURL returned (or NilURL)
    rebuilt,          \* base URL of resolving the bucket host again
    exist,            \* CheckAndCreateBucket: exist
    client,           \* the *cosClient the constructor returned (or NilClient)
    content,          \* PutObject: content
    opts,             \* PutObject: the opts the caller passed
    option,           \* PutObjectWithReader: storage.PutOption the opts build
    putOption,        \* ObjectPutOptions of the last Object.Put request
    value,            \* parseCosTime: value
    parsed            \* parseCosTime: the time.Time returned

vars == <<pc, op, input, opt, req, result, remoteErr, files, idx, tstate, fetchCtx,
          groupErr, groupCancelled, callerCancelled, out, err, calls,
          allFiles, cursor, lastPage, objectKey, fileInfo,
          bucketName, endpoint, region, baseURL, rebuilt, exist, client,
          content, opts, option, putOption, value, parsed>>

pageVars == <<req, result, files, idx, tstate, fetchCtx, groupErr, groupCancelled>>
allVars == <<allFiles, cursor, lastPage>>
headVars == <<objectKey, fileInfo>>
clientVars ==
    <<bucketName, endpoint, region, baseURL, rebuilt, exist, client,
      content, opts, option, putOption, value, parsed>>

NoPage == [isNil |-> TRUE]

InitStorage ==
    /\ pc = "idle"
    /\ op = "none"
    /\ input = NilInput
    /\ opt = GetOption(FALSE, FALSE, 0)
    /\ req = NoReq
    /\ result = NoPage
    /\ remoteErr = NoErr
    /\ files = <<>>
    /\ idx = 0
    /\ tstate = <<>>
    /\ fetchCtx = <<>>
    /\ groupErr = NoErr
    /\ groupCancelled = FALSE
    /\ callerCancelled = FALSE
    /\ out = NilOut
    /\ err = NoErr
    /\ calls = NoCalls
    /\ allFiles = EmptyBag
    /\ cursor = <<>>
    /\ lastPage = NoPage
    /\ objectKey = <<>>
    /\ fileInfo = NilOut

\* no client constructed yet, no put or parse under way
InitClientVars ==
    /\ bucketName = <<"b">>
    /\ endpoint = <<>>
    /\ region = <<"r">>
    /\ baseURL = NilURL
    /\ rebuilt = NilURL
    /\ exist = FALSE
    /\ client = NilClient
    /\ content = <<>>
    /\ opts = <<>>
    /\ option = NilOut
    /\ putOption = NilOut
    /\ value = <<>>
    /\ parsed = NilOut

Init == InitStorage /\ InitClientVars

\* return o, e
Return(o, e) ==
    /\ pc' = "done"
    /\ out' = o
    /\ err' = e

Issue(kind) == calls' = [calls EXCEPT ![kind] = @ + 1]

\* ------------------------------------------------------------- contexts
\* The task group derives its context from the caller's: cancelling the
\* caller's cancels the group's, never the other way round.
CtxDone(c) ==
    CASE c = "caller" -> callerCancelled
      [] c = "group"  -> callerCancelled \/ groupCancelled
      [] OTHER        -> FALSE

\* The context the task closure hands to Object.GetTagging.
TagFetchCtx == "caller"

Active == {i \in DOMAIN tstate : tstate[i] \in {"spawned", "inflight"}}
InFlight == {i \in DOMAIN tstate : tstate[i] = "inflight"}
Finished == {i \in DOMAIN tstate : tstate[i] \in {"done", "failed", "skipped"}}

\* The bounded task group: Go blocks while `limit` tasks hold a permit; a task
\* whose turn comes after the group was cancelled is not run.
HasPermit(limit) == Cardinality(Active) < limit
GroupSkips == CtxDone("group")

\* Only the first error is kept, and it cancels the group's context.
GroupFail(e) ==
    /\ groupErr' = IF groupErr = NoErr THEN e ELSE groupErr
    /\ groupCancelled' = TRUE

\* -------------------------------------------------- ListObjectsPaginated
\* The slot of files the task spawned for index i reads and writes (f := files[idx]).
TaskFileLast(i) == Len(files)
TaskFile(i) == i

\* The ListObjectsPaginatedOutput: the files with the remote's NextMarker and
\* IsTruncated.
PageOutputEmptyEnds(fs, res) ==
    Output(fs, IF fs = <<>> THEN <<>> ELSE res.NextMarker,
           IF fs = <<>> THEN FALSE ELSE res.IsTruncated)
PageOutput(fs, res) == Output(fs, res.NextMarker, res.IsTruncated)

\* URL enrichment (fileutil.AssembleFileUrl) or the final return.
AfterTagging(fs, res) ==
    IF opt.WithURL /\ fs # <<>>
    THEN /\ pc' = "url"
         /\ idx' = 1
         /\ UNCHANGED <<out, err>>
    ELSE /\ Return(PageOutput(fs, res), NoErr)
         /\ UNCHANGED idx

\* The argument checks at the top of ListObjectsPaginated.
InputErrorNegativeOnly(in) ==
    IF in.isNil THEN ErrInputNil
    ELSE IF in.PageSize < 0 THEN ErrPageSize
    ELSE NoErr
InputError(in) ==
    IF in.isNil THEN ErrInputNil
    ELSE IF in.PageSize <= 0 THEN ErrPageSize
    ELSE NoErr

\* Entry: argument validation, then the Bucket.Get request is issued.
CallListObjectsPaginated ==
    /\ pc = "idle"
    /\ \E in \in Inputs, o \in Options :
        /\ op' = "ListObjectsPaginated"
        /\ input' = in
        /\ opt' = o
        /\ IF InputError(in) # NoErr
           THEN /\ Return(NilOut, InputError(in))
                /\ UNCHANGED <<req, calls>>
           ELSE /\ pc' = "list"
                /\ req' = [isNil |-> FALSE, Prefix |-> in.Prefix, Marker |-> in.Cursor,
                           MaxKeys |-> in.PageSize]
                /\ Issue("list")
                /\ UNCHANGED <<out, err>>
    /\ UNCHANGED <<result, remoteErr, files, idx, tstate, fetchCtx, groupErr,
                   groupCancelled, callerCancelled>>
    /\ UNCHANGED allVars
    /\ UNCHANGED headVars
    /\ UNCHANGED clientVars

\* Bucket.Get failed.
BucketGetFails ==
    /\ pc = "list"
    /\ \E e \in RemoteErrs \cup {CtxCanceled} :
        /\ e = CtxCanceled => callerCancelled
        /\ remoteErr' = e
        /\ Return(NilOut, Wrapf("list objects failed", e))
    /\ UNCHANGED <<op, input, opt, req, result, files, idx, tstate, fetchCtx, groupErr,
                   groupCancelled, callerCancelled, calls>>
    /\ UNCHANGED allVars
    /\ UNCHANGED headVars
    /\ UNCHANGED clientVars

\* Bucket.Get answered: filter, read the options, start the fan-out.
BucketGetReturns ==
    /\ pc = "list"
    /\ \E r \in PageResults :
        /\ result' = r
        /\ files' = FilterContents(r.Contents)
        /\ IF opt.WithTagging
           THEN /\ tstate' = [i \in 1..Len(files') |-> "new"]
                /\ fetchCtx' = [i \in 1..Len(files') |-> "none"]
                /\ idx' = 1
                /\ pc' = IF files' = <<>> THEN "wait" ELSE "spawn"
                /\ UNCHANGED <<out, err>>
           ELSE /\ AfterTagging(files', r)
                /\ UNCHANGED <<tstate, fetchCtx>>
    /\ UNCHANGED <<op, input, opt, req, remoteErr, groupErr, groupCancelled,
                   callerCancelled, calls>>
    /\ UNCHANGED allVars
    /\ UNCHANGED headVars
    /\ UNCHANGED clientVars

\* taskGroup.Go: blocks while TagConcurrency tasks hold a permit.
TaskGroupGo ==
    /\ pc = "spawn"
    /\ idx <= Len(files)
    /\ HasPermit(TagConcurrency)
    /\ tstate' = [tstate EXCEPT ![idx] = "spawned"]
    /\ idx' = idx + 1
    /\ pc' = IF idx + 1 > Len(files) THEN "wait" ELSE "spawn"
    /\ UNCHANGED <<op, input, opt, req, result, remoteErr, files, fetchCtx, groupErr,
                   groupCancelled, callerCancelled, out, err, calls>>
    /\ UNCHANGED allVars
    /\ UNCHANGED headVars
    /\ UNCHANGED clientVars

\* A spawned task starts: it is skipped when the group is already cancelled,
\* otherwise the closure issues Object.GetTagging(ctx, f.Key).
TaskStart(i) ==
    /\ i \in DOMAIN tstate
    /\ tstate[i] = "spawned"
    /\ IF GroupSkips
       THEN /\ tstate' = [tstate EXCEPT ![i] = "skipped"]
            /\ GroupFail(CtxCanceled)
            /\ UNCHANGED <<fetchCtx, calls>>
       ELSE /\ tstate' = [tstate EXCEPT ![i] = "inflight"]
            /\ fetchCtx' = [fetchCtx EXCEPT ![i] = TagFetchCtx]
            /\ Issue("tag")
            /\ UNCHANGED <<groupErr, groupCancelled>>
    /\ UNCHANGED <<pc, op, input, opt, req, result, remoteErr, files, idx,
                   callerCancelled, out, err>>
    /\ UNCHANGED allVars
    /\ UNCHANGED headVars
    /\ UNCHANGED clientVars

\* GetTagging answered: the closure writes the tags into the FileInfo it captured.
TagFetchReturns(i) ==
    /\ i \in DOMAIN tstate
    /\ tstate[i] = "inflight"
    /\ tstate' = [tstate EXCEPT ![i] = "done"]
    /\ files' = [files EXCEPT ![TaskFile(i)].Tagging =
                    cosTagsToMap(RemoteTagSet(files[TaskFile(i)].Key))]
    /\ UNCHANGED <<pc, op, input, opt, req, result, remoteErr, idx, fetchCtx, groupErr,
                   groupCancelled, callerCancelled, out, err, calls>>
    /\ UNCHANGED allVars
    /\ UNCHANGED headVars
    /\ UNCHANGED clientVars

\* GetTagging failed: the closure returns the error to the group.
TagFetchFails(i) ==
    /\ i \in DOMAIN tstate
    /\ tstate[i] = "inflight"
    /\ \E e \in {CosErr(403), CtxCanceled} :
        /\ e = CtxCanceled => CtxDone(fetchCtx[i])
        /\ GroupFail(e)
    /\ tstate' = [tstate EXCEPT ![i] = "failed"]
    /\ UNCHANGED <<pc, op, input, opt, req, result, remoteErr, files, idx, fetchCtx,
                   callerCancelled, out, err, calls>>
    /\ UNCHANGED allVars
    /\ UNCHANGED headVars
    /\ UNCHANGED clientVars

\* The error taskGroup.Wait hands back: the first one the group recorded.
WaitError == groupErr

\* if err := taskGroup.Wait(); err != nil { return nil, err }
PageAbortsNever(e) == FALSE
PageAborts(e) == e # NoErr

\* taskGroup.Wait: every task has finished.
TaskGroupWait ==
    /\ pc = "wait"
    /\ Finished = DOMAIN tstate
    /\ IF PageAborts(WaitError)
       THEN /\ Return(NilOut, WaitError)
            /\ UNCHANGED idx
       ELSE /\ AfterTagging(files, result)
    /\ UNCHANGED <<op, input, opt, req, result, remoteErr, files, tstate, fetchCtx,
                   groupErr, groupCancelled, callerCancelled, calls>>
    /\ UNCHANGED allVars
    /\ UNCHANGED headVars
    /\ UNCHANGED clientVars

\* AssembleFileUrl: one presign per file, in order, stopping at the first error.
UrlStep ==
    /\ pc = "url"
    /\ idx <= Len(files)
    /\ Issue("presign")
    /\ \/ /\ files' = [files EXCEPT ![idx].URL = Presigned(files[idx].Key, UrlExpire(opt))]
          /\ IF idx = Len(files)
             THEN /\ Return(PageOutput(files', result), NoErr)
                  /\ UNCHANGED idx
             ELSE /\ idx' = idx + 1
                  /\ UNCHANGED <<pc, out, err>>
       \/ /\ Return(NilOut, NetErr)
          /\ UNCHANGED <<files, idx>>
    /\ UNCHANGED <<op, input, opt, req, result, remoteErr, tstate, fetchCtx, groupErr,
                   groupCancelled, callerCancelled>>
    /\ UNCHANGED allVars
    /\ UNCHANGED headVars
    /\ UNCHANGED clientVars

\* The caller cancels the ctx it passed in while the call is running.
CallerCancel ==
    /\ pc \in {"list", "spawn", "wait", "url"}
    /\ ~callerCancelled
    /\ callerCancelled' = TRUE
    /\ UNCHANGED <<pc, op, input, opt, req, result, remoteErr, files, idx, tstate,
                   fetchCtx, groupErr, groupCancelled, out, err, calls>>
    /\ UNCHANGED allVars
    /\ UNCHANGED headVars
    /\ UNCHANGED clientVars

\* ------------------------------------------------------------- HeadObject
\* Response headers of Object.Head.
Header(len, etag) == [ContentLength |-> len, ETag |-> etag]
HeadResponses ==
    { Header(<<"1", "0">>, <<"\"", "e", "1", "\"">>),
      Header(<<>>, <<>>),
      Header(<<"x">>, <<"e", "\"">>) }
ObjectKeys == {<<"a">>, <<"e">>}

HeadOut(fi) == [isNil |-> FALSE, File |-> fi]

\* What HeadObject returns for an error of Object.Head.
HeadErrorUnmapped(e) == e
HeadError(e) == IF IsNotFoundError(e) THEN ErrObjectNotFound ELSE e

CallHeadObject ==
    /\ pc = "idle"
    /\ \E k \in ObjectKeys, o \in Options :
        /\ op' = "HeadObject"
        /\ objectKey' = k
        /\ opt' = o
    /\ pc' = "head"
    /\ Issue("head")
    /\ UNCHANGED <<input, remoteErr, callerCancelled, out, err, fileInfo>>
    /\ UNCHANGED pageVars
    /\ UNCHANGED allVars
    /\ UNCHANGED clientVars

\* Object.Head failed: a not-found answer becomes the sentinel.
HeadFails ==
    /\ pc = "head"
    /\ \E e \in RemoteErrs :
        /\ remoteErr' = e
        /\ Return(NilOut, HeadError(e))
    /\ UNCHANGED <<op, input, opt, callerCancelled, calls>>
    /\ UNCHANGED pageVars
    /\ UNCHANGED allVars
    /\ UNCHANGED headVars
    /\ UNCHANGED clientVars

\* After the FileInfo fi is (further) filled: the next remote call or the return.
HeadContinue(fi, tagged) ==
    IF opt.WithTagging /\ ~tagged
    THEN /\ pc' = "headTag"
         /\ Issue("tag")
         /\ UNCHANGED <<out, err>>
    ELSE IF opt.WithURL
    THEN /\ pc' = "headUrl"
         /\ Issue("presign")
         /\ UNCHANGED <<out, err>>
    ELSE /\ Return(HeadOut(fi), NoErr)
         /\ UNCHANGED calls

HeadReturns ==
    /\ pc = "head"
    /\ \E h \in HeadResponses :
        /\ fileInfo' = [Key |-> objectKey, ETag |-> Trim(h.ETag, "\""),
                        Size |-> ParseIntOrZero(h.ContentLength),
                        Tagging |-> NilMap, URL |-> NoURL]
        /\ HeadContinue(fileInfo', FALSE)
    /\ UNCHANGED <<op, input, opt, remoteErr, callerCancelled, objectKey>>
    /\ UNCHANGED pageVars
    /\ UNCHANGED allVars
    /\ UNCHANGED clientVars

HeadTagReturns ==
    /\ pc = "headTag"
    /\ \/ /\ fileInfo' = [fileInfo EXCEPT !.Tagging = cosTagsToMap(RemoteTagSet(objectKey))]
          /\ HeadContinue(fileInfo', TRUE)
       \/ /\ Return(NilOut, CosErr(403))
          /\ UNCHANGED <<fileInfo, calls>>
    /\ UNCHANGED <<op, input, opt, remoteErr, callerCancelled, objectKey>>
    /\ UNCHANGED pageVars
    /\ UNCHANGED allVars
    /\ UNCHANGED clientVars

HeadUrlReturns ==
    /\ pc = "headUrl"
    /\ \/ /\ fileInfo' = [fileInfo EXCEPT !.URL = Presigned(objectKey, UrlExpire(opt))]
          /\ Return(HeadOut(fileInfo'), NoErr)
       \/ /\ Return(NilOut, NetErr)
          /\ UNCHANGED fileInfo
    /\ UNCHANGED <<op, input, opt, remoteErr, callerCancelled, objectKey, calls>>
    /\ UNCHANGED pageVars
    /\ UNCHANGED allVars
    /\ UNCHANGED clientVars

\* ---------------------------------------------------------- ListAllObjects
AllCursors == {<<>>, <<"m", "1">>, <<"m", "2">>}

\* A full page of defaultPageSize objects, and one whose first MarkersPerPage
\* entries are directory markers.
FullContents == [i \in 1..defaultPageSize |-> NumObj(((i - 1) % 3) + 1)]
AlmostFullContents ==
    [i \in 1..defaultPageSize |->
        IF i <= MarkersPerPage THEN DirMarker ELSE NumObj(((i - 1) % 3) + 1)]
AllContents == {<<>>, <<DirMarker>>, AlmostFullContents, FullContents}
AllResults == [Contents : AllContents, NextMarker : AllCursors, IsTruncated : BOOLEAN]

\* Files of a page on which every enrichment call succeeded.
TagAll(fs) ==
    [i \in DOMAIN fs |-> [fs[i] EXCEPT !.Tagging = cosTagsToMap(RemoteTagSet(fs[i].Key))]]
UrlAll(fs, o) ==
    [i \in DOMAIN fs |-> [fs[i] EXCEPT !.URL = Presigned(fs[i].Key, UrlExpire(o))]]
PageFiles(contents, o) ==
    LET f0 == FilterContents(contents)
        f1 == IF o.WithTagging THEN TagAll(f0) ELSE f0
    IN  IF o.WithURL THEN UrlAll(f1, o) ELSE f1

BagOfSeq(fs) ==
    [x \in {fs[i] : i \in DOMAIN fs} |-> Cardinality({i \in DOMAIN fs : fs[i] = x})]
PageBag == [c \in AllContents |-> [o \in Options |-> BagOfSeq(PageFiles(c, o))]]

\* Errors a ListObjectsPaginated call can hand to ListAllObjects.
PageErrors(o) ==
    {Wrapf("list objects failed", e) : e \in RemoteErrs}
        \cup (IF o.WithTagging THEN {CosErr(403)} ELSE {})
        \cup (IF o.WithURL THEN {NetErr} ELSE {})

AllOut(bag) == [isNil |-> FALSE, Files |-> bag]
LastPage(cur, trunc) == [isNil |-> FALSE, Cursor |-> cur, IsTruncated |-> trunc]

\* if len(files) >= maxListObjects { break }
CapReachedStrict(n) == n > maxListObjects
CapReached(n) == n >= maxListObjects
\* After the break: return files, nil.
CapReturnAsError(bag) == Return(NilOut, Errorf("max list objects reached"))
CapReturn(bag) == Return(AllOut(bag), NoErr)
\* if err != nil { return nil, err }
PageFailure(e) == Return(NilOut, e)
\* if !output.IsTruncated || output.Cursor == "" { break }
PageEnds(trunc, cur) == ~trunc \/ cur = <<>>
\* cursor = output.Cursor
NextCursorStale(cur) == cursor
NextCursor(cur) == cur

CallListAllObjects ==
    /\ pc = "idle"
    /\ \E prefix \in {<<"p">>}, o \in Options :
        /\ op' = "ListAllObjects"
        /\ opt' = o
        /\ input' = Input(prefix, defaultPageSize, <<>>)
    /\ allFiles' = EmptyBag
    /\ cursor' = <<>>
    /\ pc' = "all_call"
    /\ UNCHANGED <<remoteErr, callerCancelled, out, err, calls, lastPage>>
    /\ UNCHANGED pageVars
    /\ UNCHANGED headVars
    /\ UNCHANGED clientVars

\* Top of the loop: ListObjectsPaginated(prefix, defaultPageSize, cursor) is called
\* and, the arguments being valid, issues its Bucket.Get.
ListAllRequest ==
    /\ pc = "all_call"
    /\ input' = Input(input.Prefix, defaultPageSize, cursor)
    /\ IF InputError(input') # NoErr
       THEN /\ Return(NilOut, InputError(input'))
            /\ UNCHANGED req
       ELSE /\ pc' = "all_wait"
            /\ req' = [isNil |-> FALSE, Prefix |-> input'.Prefix, Marker |-> input'.Cursor,
                       MaxKeys |-> input'.PageSize]
            /\ UNCHANGED <<out, err>>
    /\ UNCHANGED <<op, opt, result, remoteErr, files, idx, tstate, fetchCtx, groupErr,
                   groupCancelled, callerCancelled, calls>>
    /\ UNCHANGED allVars
    /\ UNCHANGED headVars
    /\ UNCHANGED clientVars

\* The page call failed (listing or enrichment): return nil, err.
ListAllPageFails ==
    /\ pc = "all_wait"
    /\ \E e \in PageErrors(opt) : PageFailure(e)
    /\ UNCHANGED <<op, input, opt, remoteErr, callerCancelled, calls>>
    /\ UNCHANGED pageVars
    /\ UNCHANGED allVars
    /\ UNCHANGED headVars
    /\ UNCHANGED clientVars

\* The page call returned: append, then the cap test, then the end-of-listing test.
ListAllPageReturns ==
    /\ pc = "all_wait"
    /\ \E r \in AllResults :
        /\ allFiles' = allFiles (+) PageBag[r.Contents][opt]
        /\ lastPage' = LastPage(r.NextMarker, r.IsTruncated)
        /\ IF CapReached(BagCardinality(allFiles'))
           THEN /\ CapReturn(allFiles')
                /\ UNCHANGED cursor
           ELSE IF PageEnds(r.IsTruncated, r.NextMarker)
           THEN /\ Return(AllOut(allFiles'), NoErr)
                /\ UNCHANGED cursor
           ELSE /\ cursor' = NextCursor(r.NextMarker)
                /\ pc' = "all_call"
                /\ UNCHANGED <<out, err>>
    /\ UNCHANGED <<op, input, opt, remoteErr, callerCancelled, calls>>
    /\ UNCHANGED pageVars
    /\ UNCHANGED headVars
    /\ UNCHANGED clientVars

\* ----------------------------------------------------------- specification
Next ==
    \/ CallListObjectsPaginated
    \/ BucketGetFails
    \/ BucketGetReturns
    \/ TaskGroupGo
    \/ \E i \in 1..(MaxPage + 1) : TaskStart(i)
    \/ \E i \in 1..(MaxPage + 1) : TagFetchReturns(i)
    \/ \E i \in 1..(MaxPage + 1) : TagFetchFails(i)
    \/ TaskGroupWait
    \/ UrlStep
    \/ CallerCancel
    \/ CallHeadObject
    \/ HeadFails
    \/ HeadReturns
    \/ HeadTagReturns
    \/ HeadUrlReturns

Spec == Init /\ [][Next]_vars

\* ListAllObjects alone; each page call is one step.
NextAll ==
    \/ CallListAllObjects
    \/ ListAllRequest
    \/ ListAllPageFails
    \/ ListAllPageReturns

SpecAll == Init /\ [][NextAll]_vars

\* The loop keeps running and the remote answers every call.
SpecAllFair == SpecAll /\ WF_vars(NextAll)

\* ListObjectsPaginated, HeadObject and ListAllObjects together.
SpecLists == Init /\ [][Next \/ NextAll]_vars

\* ------------------------------------------------------------------ claims
PageDone == op = "ListObjectsPaginated" /\ pc = "done"
AllDone == op = "ListAllObjects" /\ pc = "done"
HeadDone == op = "HeadObject" /\ pc = "done"
TagFailed == \E i \in DOMAIN tstate : tstate[i] = "failed"
LooksLikeMarker(f) == f.Size = 0 /\ f.Key # <<>> /\ f.Key[Len(f.Key)] = "/"

\* C1: ListAllObjects never returns more than 10000 items, whatever the remote
\* list primitive answers.
C1_NeverMoreThanCap ==
    (AllDone /\ ~out.isNil) => BagCardinality(out.Files) <= 10000

\* C2: against a remote that answers every page call, ListAllObjects
\* eventually returns.
C2_EventuallyReturns == <>(pc = "done")

\* C3: no FileInfo returned by ListObjectsPaginated or ListAllObjects is a
\* directory marker (key ending in "/" with size 0); the page
\* {"d/" size 0, "a" size 10} yields only "a".
C3_NoMarkerReturned ==
    /\ (PageDone /\ ~out.isNil) =>
          /\ \A i \in DOMAIN out.Files : ~LooksLikeMarker(out.Files[i])
          /\ result.Contents = <<DirMarker, FileA>> =>
                Len(out.Files) = 1 /\ out.Files[1].Key = <<"a">>
    /\ (AllDone /\ ~out.isNil) =>
          \A f \in BagToSet(out.Files) : ~LooksLikeMarker(f)

C3_Witness ==
    /\ PageDone
    /\ ~out.isNil
    /\ result.Contents = <<SlashFile, DirMarker, EmptyFile>>
    /\ Len(out.Files) = 2

\* C4: when the tag fetch of any item fails, ListObjectsPaginated returns an
\* error and no output; an output that is returned with tagging has every
\* item's tag task completed.
C4_AllOrNothing ==
    /\ (PageDone /\ TagFailed) => (out = NilOut /\ err # NoErr)
    /\ (PageDone /\ ~out.isNil /\ opt.WithTagging) =>
          \A i \in DOMAIN tstate : tstate[i] = "done"

C4_Witness ==
    /\ PageDone
    /\ out = NilOut
    /\ \E i, j \in DOMAIN tstate :
          /\ tstate[i] = "failed"
          /\ tstate[j] = "done"
          /\ files[j].Tagging # NilMap

\* C5: at every moment at most 5 tag fetches are in flight.
C5_AtMostFiveInFlight == Cardinality(InFlight) <= 5

C5_Witness ==
    /\ Cardinality(InFlight) = 5
    /\ pc = "spawn"
    /\ idx <= Len(files)

\* C6: once a tag fetch has failed, no fetch of a not yet started item is
\* started, and every outstanding fetch holds a context that the group's
\* cancellation has reached.
C6_FailFastCancels ==
    [][ TagFailed =>
          /\ \A i \in InFlight : CtxDone(fetchCtx[i])
          /\ \A i \in DOMAIN tstate :
                tstate[i] \in {"new", "spawned"} => tstate'[i] # "inflight" ]_vars

\* C7: after a successful ListObjectsPaginated with tagging, the i-th item has
\* the key of the i-th non-marker entry of the page and the tags stored for
\* that key; a slot is written only by its own task.
ExpectedEntries ==
    SelectSeq(result.Contents, LAMBDA e : ~(e.Size = 0 /\ e.Key[Len(e.Key)] = "/"))
C7_SamePositionalSlot ==
    /\ (PageDone /\ ~out.isNil /\ opt.WithTagging) =>
          /\ Len(out.Files) = Len(ExpectedEntries)
          /\ \A i \in DOMAIN out.Files :
                /\ out.Files[i].Key = ExpectedEntries[i].Key
                /\ out.Files[i].Tagging = cosTagsToMap(RemoteTagSet(ExpectedEntries[i].Key))
    /\ (op = "ListObjectsPaginated" /\ pc \in {"spawn", "wait"}) =>
          \A i \in DOMAIN tstate : tstate[i] # "done" => files[i].Tagging = NilMap

C7_Witness ==
    /\ PageDone
    /\ ~out.isNil
    /\ opt.WithTagging
    /\ Len(out.Files) >= 3
    /\ \A i \in DOMAIN out.Files : out.Files[i].Tagging # NilMap

\* C8: HeadObject on an absent key returns storage.ErrObjectNotFound and no
\* FileInfo; any other head failure is returned as an error that is not the
\* sentinel; in both cases no tag fetch and no presign call is made.
C8_HeadNotFoundSentinel ==
    (HeadDone /\ remoteErr # NoErr) =>
        /\ out = NilOut
        /\ (remoteErr.kind = "cos.ErrorResponse" /\ remoteErr.status = 404)
              => err = ErrObjectNotFound
        /\ ~(remoteErr.kind = "cos.ErrorResponse" /\ remoteErr.status = 404)
              => (err # NoErr /\ ~ErrorsIs(err, ErrObjectNotFound))
        /\ calls.tag = 0
        /\ calls.presign = 0

C8_Witness ==
    /\ HeadDone
    /\ remoteErr = CosErr(404)
    /\ err = ErrObjectNotFound
    /\ opt.WithTagging
    /\ opt.WithURL

\* C9: ListObjectsPaginated with a nil input or pageSize <= 0 fails with an
\* InvalidArgument error before any remote call.
C9_InvalidArgumentFirst ==
    (op = "ListObjectsPaginated" /\ (input.isNil \/ input.PageSize <= 0)) =>
        /\ pc = "done"
        /\ out = NilOut
        /\ err \in InvalidArgument
        /\ calls = NoCalls

C9_Witness ==
    /\ PageDone
    /\ ~input.isNil
    /\ input.PageSize = 0
    /\ err = ErrPageSize
    /\ opt.WithTagging

\* C10: ListAllObjects' first request carries the empty cursor; a further
\* request is issued only while the count is below 10000 and the last page
\* was truncated with a non-empty cursor, and it carries that cursor; when one
\* of the three stop conditions holds it returns without error and without
\* another request.
StopCondition ==
    \/ BagCardinality(allFiles) >= 10000
    \/ ~lastPage.IsTruncated
    \/ lastPage.Cursor = <<>>
C10_DrainOrder ==
    /\ (pc = "all_call" /\ lastPage.isNil) => cursor = <<>>
    /\ (pc = "all_wait" /\ lastPage.isNil) => req.Marker = <<>>
    /\ (pc \in {"all_call", "all_wait"} /\ ~lastPage.isNil) =>
          /\ ~StopCondition
          /\ pc = "all_wait" => req.Marker = lastPage.Cursor
    /\ (op = "ListAllObjects" /\ ~lastPage.isNil /\ StopCondition) =>
          /\ pc = "done"
          /\ err = NoErr
          /\ out = AllOut(allFiles)
    /\ (AllDone /\ ~out.isNil) => (~lastPage.isNil /\ StopCondition)

C10_Witness ==
    /\ pc = "all_wait"
    /\ ~lastPage.isNil
    /\ req.Marker = <<"m", "2">>
    /\ BagCardinality(allFiles) > defaultPageSize

\* C12: in ListAllObjects reaching the 10000-item cap is not an error: what
\* was accumulated is returned with a nil error; a failed page request
\* returns the error with no items and ends the loop (no retry).
C12_CapIsNotAnError ==
    /\ (AllDone /\ BagCardinality(allFiles) >= 10000) =>
          (err = NoErr /\ out = AllOut(allFiles))
    /\ (op = "ListAllObjects" /\ err # NoErr) => (pc = "done" /\ out = NilOut)

C12_Witness ==
    /\ AllDone
    /\ err = NoErr
    /\ BagCardinality(out.Files) >= 10000
    /\ lastPage.IsTruncated
    /\ lastPage.Cursor # <<>>

\* C18: when the remote never returns more than maxKeys entries per call,
\* ListAllObjects holds at most 10000 + 100 - 1 items.
C18_BoundedOverrun == BagCardinality(allFiles) <= 10000 + 100 - 1

C18_Witness ==
    /\ AllDone
    /\ ~out.isNil
    /\ BagCardinality(out.Files) > 10000

\* C19: ListObjectsPaginated returns the cursor and the isTruncated flag as
\* the remote reported them, whatever was filtered or enriched.
C19_CursorAsReported ==
    (PageDone /\ ~out.isNil) =>
        /\ out.Cursor = result.NextMarker
        /\ out.IsTruncated = result.IsTruncated

C19_Witness ==
    /\ PageDone
    /\ ~out.isNil
    /\ result.Contents = <<DirMarker>>
    /\ out.Files = <<>>
    /\ out.Cursor = <<"m", "1">>
    /\ out.IsTruncated

\* C20: in ListObjectsPaginated the list call comes first, presigned URLs are
\* derived only after every tag task has finished and none failed, and with
\* neither flag set the list call is the only remote call.
C20_ListThenTagsThenUrls ==
    /\ (op = "ListObjectsPaginated" /\ calls.tag > 0) =>
          (calls.list = 1 /\ pc # "list")
    /\ (op = "ListObjectsPaginated" /\ calls.presign > 0) =>
          /\ calls.list = 1
          /\ opt.WithTagging =>
                /\ Finished = DOMAIN tstate
                /\ ~TagFailed
                /\ groupErr = NoErr
    /\ (PageDone /\ ~input.isNil /\ input.PageSize > 0
            /\ ~opt.WithTagging /\ ~opt.WithURL) =>
          calls = [NoCalls EXCEPT !.list = 1]

C20_Witness ==
    /\ PageDone
    /\ ~out.isNil
    /\ opt.WithTagging
    /\ opt.WithURL
    /\ calls.tag >= 2
    /\ calls.presign >= 2

\* ------------------------------------------------------------- buildBaseURL
\* Position of the first / last occurrence of the character c in s, 0 if none.
IndexOf(s, c) ==
    IF \E i \in 1..Len(s) : s[i] = c
    THEN CHOOSE i \in 1..Len(s) : s[i] = c /\ \A j \in 1..(i - 1) : s[j] # c
    ELSE 0
LastIndexOf(s, c) ==
    IF \E i \in 1..Len(s) : s[i] = c
    THEN CHOOSE i \in 1..Len(s) : s[i] = c /\ \A j \in (i + 1)..Len(s) : s[j] # c
    ELSE 0
HasPrefix(s, prefix) == Len(s) >= Len(prefix) /\ SubSeq(s, 1, Len(prefix)) = prefix
\* before, after, _ := strings.Cut(s, c)
CutBefore(s, c) == IF IndexOf(s, c) = 0 THEN s ELSE SubSeq(s, 1, IndexOf(s, c) - 1)
CutAfter(s, c) == IF IndexOf(s, c) = 0 THEN <<>> ELSE SubSeq(s, IndexOf(s, c) + 1, Len(s))

AlphaNum ==
    {"a", "b", "c", "d", "e", "f", "g", "h", "i", "j", "k", "l", "m", "n", "o",
     "p", "q", "r", "s", "t", "u", "v", "w", "x", "y", "z"}
        \cup {Digits[d] : d \in 1..10}

\* url.Parse of a raw URL that starts with "http://" or "https://" and holds
\* no control byte, '%' or '[': the fragment is cut at the first '#', the
\* scheme at the first ':', the query at the first '?', the authority runs from
\* after "//" to the first '/', the host is what follows its last '@'.
\* What follows the last ':' of the host must be a port (validOptionalPort:
\* digits only); the host and the userinfo may hold only the bytes
\* shouldEscape(c, encodeHost) and validUserinfo let through.
ParseURL(rawURL) ==
    LET hostChars ==
            AlphaNum \cup {"-", "_", ".", "~", "!", "$", "&", "'", "(", ")", "*", "+",
                           ",", ";", "=", ":", "[", "]", "<", ">", "\""}
        userinfoChars ==
            AlphaNum \cup {"-", ".", "_", ":", "~", "!", "$", "&", "'", "(", ")", "*",
                           "+", ",", ";", "=", "%", "@"}
        UrlError(msg) == [ok |-> FALSE, err |-> Errorf(msg)]
        u         == CutBefore(rawURL, "#")
        rest      == CutBefore(CutAfter(u, ":"), "?")
        afterSl   == SubSeq(rest, 3, Len(rest))
        authority == CutBefore(afterSl, "/")
        at        == LastIndexOf(authority, "@")
        host      == SubSeq(authority, at + 1, Len(authority))
        userinfo  == SubSeq(authority, 1, at - 1)
        port      == IF LastIndexOf(host, ":") = 0 THEN <<>>
                     ELSE SubSeq(host, LastIndexOf(host, ":") + 1, Len(host))
    IN  IF \E i \in 1..Len(port) : ~IsDigit(port[i])
        THEN UrlError("invalid port after host")
        ELSE IF \E i \in 1..Len(host) : host[i] \notin hostChars
        THEN UrlError("invalid character in host name")
        ELSE IF \E i \in 1..Len(userinfo) : userinfo[i] \notin userinfoChars
        THEN UrlError("net/url: invalid userinfo")
        ELSE [ok |-> TRUE,
              Scheme |-> CutBefore(u, ":"),
              User |-> userinfo,
              Host |-> host,
              Path |-> IF IndexOf(afterSl, "/") = 0 THEN <<>>
                       ELSE SubSeq(afterSl, IndexOf(afterSl, "/"), Len(afterSl)),
              RawQuery |-> CutAfter(CutAfter(u, ":"), "?"),
              Fragment |-> CutAfter(rawURL, "#")]

\* fmt.Sprintf("https://cos.%s.myqcloud.com", region)
DefaultEndpointNoService(r) == <<"h", "t", "t", "p", "s", ":", "/", "/">> \o r \o <<".", "m", "y", "q", "c", "l", "o", "u", "d", ".", "c", "o", "m">>
DefaultEndpoint(r) == <<"h", "t", "t", "p", "s", ":", "/", "/", "c", "o", "s", ".">> \o r \o <<".", "m", "y", "q", "c", "l", "o", "u", "d", ".", "c", "o", "m">>

\* if !HasPrefix(endpoint, "http://") && !HasPrefix(endpoint, "https://")
WithScheme(e) ==
    IF ~HasPrefix(e, <<"h", "t", "t", "p", ":", "/", "/">>) /\ ~HasPrefix(e, <<"h", "t", "t", "p", "s", ":", "/", "/">>)
    THEN <<"h", "t", "t", "p", "s", ":", "/", "/">> \o e ELSE e

\* if !strings.HasPrefix(bucketHost, bucketName+".") { bucketHost = ... }
BucketHostAlwaysPrefixed(b, host) == b \o <<".">> \o host
BucketHost(b, host) ==
    IF ~HasPrefix(host, b \o <<".">>) THEN b \o <<".">> \o host ELSE host

\* buildBaseURL(bucketName, endpoint, region): the pair it returns.
buildBaseURL(b, e, r) ==
    IF b = <<>>
    THEN [url |-> NilURL, err |-> Errorf("cos bucket name is empty")]
    ELSE IF e = <<>> /\ r = <<>>
    THEN [url |-> NilURL, err |-> Errorf("cos endpoint is empty and region is missing")]
    ELSE LET ep  == WithScheme(IF e = <<>> THEN DefaultEndpoint(r) ELSE e)
             res == ParseURL(ep)
         IN  IF ~res.ok
             THEN [url |-> NilURL, err |-> Wrapf("parse cos endpoint failed", res.err)]
             ELSE LET serviceURL ==
                          [res EXCEPT !.Path = <<>>, !.RawQuery = <<>>, !.Fragment = <<>>]
                      bucketURL ==
                          [serviceURL EXCEPT !.Host = BucketHost(b, serviceURL.Host)]
                  IN  [url |-> [isNil |-> FALSE, BucketURL |-> bucketURL,
                                ServiceURL |-> serviceURL],
                       err |-> NoErr]

\* Configurations a deployment can hand to the constructor.
InitConfig ==
    /\ InitStorage
    /\ bucketName \in {<<>>, <<"b">>, <<"c", "o", "s">>, <<"b", ".", "x">>, <<"a", "/", "b">>, <<"a", "@", "b">>}
    /\ endpoint \in {<<>>, <<"x", ".", "c", "o">>, <<"h", "t", "t", "p", ":", "/", "/", "x", ".", "c", "o">>, <<"h", "t", "t", "p", "s", ":", "/", "/", "b", ".", "x", ".", "c", "o">>, <<"b", ".", "x", ".", "c", "o">>,
                      <<"x", ".", "c", "o", ":", "8", "0">>, <<"x", ".", "c", "o", ":", "8", "a">>, <<"x", ".", "c", "o", "/", "p", "?", "q", "#", "f">>, <<"x", " ", "y">>}
    /\ region \in {<<>>, <<"r">>, <<"a", "p", "-", "1">>, <<"a", "/", "b">>, <<"a", "#", "b">>, <<"a", " ", "b">>, <<"a", ":", "1">>}
    /\ baseURL = NilURL
    /\ rebuilt = NilURL
    /\ exist = FALSE
    /\ client = NilClient
    /\ content = <<>>
    /\ opts = <<>>
    /\ option = NilOut
    /\ putOption = NilOut
    /\ value = <<>>
    /\ parsed = NilOut

\* baseURL, err := buildBaseURL(bucketName, endpoint, region)
Resolve ==
    /\ pc = "idle"
    /\ LET r == buildBaseURL(bucketName, endpoint, region)
       IN  /\ baseURL' = r.url
           /\ err' = r.err
    /\ pc' = "resolved"
    /\ UNCHANGED <<op, input, opt, remoteErr, callerCancelled, out, calls>>
    /\ UNCHANGED <<bucketName, endpoint, region, rebuilt, exist, client>>
    /\ UNCHANGED <<content, opts, option, putOption, value, parsed>>
    /\ UNCHANGED <<pageVars, allVars, headVars>>

\* buildBaseURL(bucketName, baseURL.BucketURL.Host, region): the bucket host
\* the first resolution produced is configured as the endpoint.
ResolveAgain ==
    /\ pc = "resolved"
    /\ ~baseURL.isNil
    /\ LET r == buildBaseURL(bucketName, baseURL.BucketURL.Host, region)
       IN  /\ rebuilt' = r.url
           /\ err' = r.err
    /\ pc' = "rebuilt"
    /\ UNCHANGED <<op, input, opt, remoteErr, callerCancelled, out, calls>>
    /\ UNCHANGED <<bucketName, endpoint, region, baseURL, exist, client>>
    /\ UNCHANGED <<content, opts, option, putOption, value, parsed>>
    /\ UNCHANGED <<pageVars, allVars, headVars>>

NextURL ==
    \/ Resolve
    \/ ResolveAgain

SpecURL == InitConfig /\ [][NextURL]_vars

\* Names made of the characters of a DNS name.
IsHostName(s) == \A i \in 1..Len(s) : s[i] \in AlphaNum \cup {"-", "."}
ServiceHostOf(r) == <<"c", "o", "s", ".">> \o r \o <<".", "m", "y", "q", "c", "l", "o", "u", "d", ".", "c", "o", "m">>
Resolved == pc \in {"resolved", "rebuilt"}
DefaultCase == Resolved /\ bucketName # <<>> /\ region # <<>> /\ endpoint = <<>>

\* C13: with an empty endpoint, every non-empty bucket name and non-empty
\* region resolve to service host cos.<region>.myqcloud.com and bucket host
\* <bucket>.cos.<region>.myqcloud.com.
C13_DefaultHosts ==
    DefaultCase =>
        /\ ~baseURL.isNil
        /\ baseURL.ServiceURL.Host = ServiceHostOf(region)
        /\ baseURL.BucketURL.Host = bucketName \o <<".">> \o ServiceHostOf(region)

\* C13 (as the code has it): with an empty endpoint, a non-empty bucket name and
\* a non-empty region made of letters, digits, '-' and '.', the service host is
\* cos.<region>.myqcloud.com; the bucket host is <bucket>.cos.<region>.myqcloud.com
\* unless the service host already starts with "<bucket>.", and then it is the
\* service host itself.
C13_DefaultHostsOfHostNames ==
    (DefaultCase /\ IsHostName(region)) =>
        /\ ~baseURL.isNil
        /\ baseURL.ServiceURL.Scheme = <<"h", "t", "t", "p", "s">>
        /\ baseURL.ServiceURL.Host = ServiceHostOf(region)
        /\ baseURL.BucketURL.Host =
              IF HasPrefix(ServiceHostOf(region), bucketName \o <<".">>)
              THEN ServiceHostOf(region)
              ELSE bucketName \o <<".">> \o ServiceHostOf(region)

C13_Witness ==
    /\ DefaultCase
    /\ bucketName = <<"b">>
    /\ region = <<"a", "p", "-", "1">>
    /\ baseURL.BucketURL.Host = <<"b", ".", "c", "o", "s", ".", "a", "p", "-", "1", ".", "m", "y", "q", "c", "l", "o", "u", "d", ".", "c", "o", "m">>

\* The bucket host is the service host when that starts with "<bucket>.", and
\* "<bucket>." followed by the service host otherwise.
PrefixedOnce ==
    (Resolved /\ ~baseURL.isNil) =>
        LET host == baseURL.ServiceURL.Host
            dot  == bucketName \o <<".">>
        IN  /\ HasPrefix(baseURL.BucketURL.Host, dot)
            /\ HasPrefix(host, dot) => baseURL.BucketURL.Host = host
            /\ ~HasPrefix(host, dot) => baseURL.BucketURL.Host = dot \o host
SameBucketHost ==
    /\ ~rebuilt.isNil
    /\ rebuilt.BucketURL.Host = baseURL.BucketURL.Host

ConstructionFails(e) ==
    /\ pc' = "done"
    /\ client' = NilClient
    /\ err' = e

\* return c, nil, with c := &cosClient{client: cosv5.NewClient(baseURL, ...),
\* bucketName: bucketName, ...}
ConstructionReturns ==
    /\ pc' = "ready"
    /\ client' = [isNil |-> FALSE, bucketName |-> bucketName, client |-> baseURL]
    /\ err' = NoErr

\* if exist { return nil }: the bucket is created only when reported absent.
NeedsCreateAlways(e) == TRUE
NeedsCreate(e) == ~e

\* New / NewStorageImagex -> getCosClient: buildBaseURL, and on its error
\* return nil, err before any client is built.
CallNew ==
    /\ pc = "idle"
    /\ \E kind \in {"New", "NewStorageImagex"} : op' = kind
    /\ LET r == buildBaseURL(bucketName, endpoint, region)
       IN  /\ baseURL' = r.url
           /\ IF r.err # NoErr
              THEN ConstructionFails(r.err)
              ELSE /\ pc' = "isExist"
                   /\ UNCHANGED <<client, err>>
    /\ UNCHANGED <<input, opt, remoteErr, callerCancelled, out, calls>>
    /\ UNCHANGED <<bucketName, endpoint, region, rebuilt, exist>>
    /\ UNCHANGED <<content, opts, option, putOption, value, parsed>>
    /\ UNCHANGED <<pageVars, allVars, headVars>>

\* exist, err := c.client.Bucket.IsExist(ctx): the SDK reports a 404 as
\* (false, nil), any other failure as (false, err).
BucketIsExist ==
    /\ pc = "isExist"
    /\ Issue("isExist")
    /\ \/ \E e \in RemoteErrs \ {CosErr(404)} :
            /\ remoteErr' = e
            /\ exist' = FALSE
            /\ ConstructionFails(Wrapf("check bucket failed", e))
       \/ \E ex \in BOOLEAN :
            /\ remoteErr' = NoErr
            /\ exist' = ex
            /\ IF NeedsCreate(ex)
               THEN /\ pc' = "putBucket"
                    /\ UNCHANGED <<client, err>>
               ELSE ConstructionReturns
    /\ UNCHANGED <<op, input, opt, callerCancelled, out>>
    /\ UNCHANGED <<bucketName, endpoint, region, baseURL, rebuilt>>
    /\ UNCHANGED <<content, opts, option, putOption, value, parsed>>
    /\ UNCHANGED <<pageVars, allVars, headVars>>

\* _, err = c.client.Bucket.Put(ctx, &cosv5.BucketPutOptions{XCosACL: "private"})
BucketPut ==
    /\ pc = "putBucket"
    /\ Issue("putBucket")
    /\ \/ \E e \in RemoteErrs :
            /\ remoteErr' = e
            /\ ConstructionFails(Wrapf("create bucket failed", e))
       \/ /\ remoteErr' = NoErr
          /\ ConstructionReturns
    /\ UNCHANGED <<op, input, opt, callerCancelled, out, exist>>
    /\ UNCHANGED <<bucketName, endpoint, region, baseURL, rebuilt>>
    /\ UNCHANGED <<content, opts, option, putOption, value, parsed>>
    /\ UNCHANGED <<pageVars, allVars, headVars>>

\* ---------------------------------------------------------------- PutObject
\* storage.PutOptFn: a function that sets one field of storage.PutOption.
WithObjectSize(n) == [field |-> "ObjectSize", val |-> n]
WithContentType(t) == [field |-> "ContentType", val |-> t]

\* for _, opt := range opts { opt(&option) }, from option := storage.PutOption{}
RECURSIVE ApplyPutOpts(_, _)
ApplyPutOpts(o, fns) ==
    IF fns = <<>> THEN o
    ELSE ApplyPutOpts([o EXCEPT ![Head(fns).field] = Head(fns).val], Tail(fns))

\* opts = append(opts, storage.WithObjectSize(int64(len(content))))
WithPayloadSize(fns, c) == Append(fns, WithObjectSize(Len(c)))

\* putOption as PutObjectWithReader fills it from option: the content type
\* and the content length (the other headers are filled the same way).
ObjectPutOptions(o) ==
    [ContentType |-> IF o.ContentType # "unset" THEN o.ContentType ELSE "",
     ContentLength |-> IF o.ObjectSize > 0 THEN o.ObjectSize ELSE 0]

\* PutObject -> PutObjectWithReader up to c.client.Object.Put(...)
CallPutObject ==
    /\ pc = "ready"
    /\ op' = "PutObject"
    /\ \E k \in ObjectKeys,
          c \in {<<>>, <<"x", "y", "z">>},
          fns \in {<<>>,
                   <<WithObjectSize(5)>>,
                   <<WithContentType("text/plain")>>,
                   <<WithObjectSize(5), WithContentType("text/plain")>>} :
        /\ objectKey' = k
        /\ content' = c
        /\ opts' = fns
        /\ option' = ApplyPutOpts([ContentType |-> "unset", ObjectSize |-> 0],
                                  WithPayloadSize(fns, c))
        /\ putOption' = ObjectPutOptions(option')
    /\ Issue("putObject")
    /\ pc' = "put"
    /\ UNCHANGED <<input, opt, remoteErr, callerCancelled, out, err, fileInfo>>
    /\ UNCHANGED <<bucketName, endpoint, region, baseURL, rebuilt, exist, client>>
    /\ UNCHANGED <<value, parsed, pageVars, allVars>>

\* _, err := c.client.Object.Put(...): nil, or "put object failed: %w"
ObjectPutReturns ==
    /\ pc = "put"
    /\ \/ Return(NilOut, NoErr)
       \/ \E e \in RemoteErrs : Return(NilOut, Wrapf("put object failed", e))
    /\ UNCHANGED <<op, input, opt, remoteErr, callerCancelled, calls>>
    /\ UNCHANGED <<clientVars, pageVars, allVars, headVars>>

\* --------------------------------------------------- imagex compatibility
\* func (c *cosClient) Upload(...) / GetUploadAuthWithExpire(...): return nil, nil
CallCompat ==
    /\ pc = "ready"
    /\ \E name \in {"Upload", "GetUploadAuthWithExpire"} : op' = name
    /\ Return(NilOut, NoErr)
    /\ UNCHANGED <<input, opt, remoteErr, callerCancelled, calls>>
    /\ UNCHANGED <<clientVars, pageVars, allVars, headVars>>

NextClient ==
    \/ CallNew
    \/ BucketIsExist
    \/ BucketPut
    \/ CallPutObject
    \/ ObjectPutReturns
    \/ CallCompat

SpecClient == InitConfig /\ [][NextClient]_vars

Constructed == op \in {"New", "NewStorageImagex"} /\ pc \in {"ready", "done"}
RemoteCalls == calls.isExist + calls.putBucket

\* C11: construction makes no remote call when endpoint resolution fails;
\* otherwise it checks the bucket exactly once and creates it at most once, only
\* after the check succeeded and reported the bucket absent; a client is
\* returned only if the bucket was reported present or the create succeeded,
\* and every failure returns no client.
C11_BootstrapOnce ==
    /\ [](/\ calls.isExist <= 1 /\ calls.putBucket <= 1
          /\ (pc # "idle" /\ baseURL.isNil) => (RemoteCalls = 0 /\ client.isNil)
          /\ (Constructed /\ ~baseURL.isNil) => calls.isExist = 1
          /\ ~client.isNil =>
                /\ calls.isExist = 1
                /\ exist \/ (calls.putBucket = 1 /\ remoteErr = NoErr)
          /\ (Constructed /\ err # NoErr) => (pc = "done" /\ client.isNil)
          /\ (Constructed /\ client.isNil) => err # NoErr)
    /\ [][calls'.putBucket # calls.putBucket =>
            /\ calls.isExist = 1
            /\ remoteErr = NoErr
            /\ ~exist]_vars

C11_Witness ==
    /\ Constructed
    /\ ~client.isNil
    /\ ~exist
    /\ calls.isExist = 1
    /\ calls.putBucket = 1

\* the object sizes the caller's options supply
SuppliedSizes == {opts[i].val : i \in {j \in DOMAIN opts : opts[j].field = "ObjectSize"}}

\* C15: the content length PutObject sends is len(content) when the caller's
\* options carry no object size, and the supplied size when they carry one.
C15_SuppliedSizeWins ==
    (op = "PutObject" /\ pc \in {"put", "done"}) =>
        IF SuppliedSizes = {}
        THEN putOption.ContentLength = Len(content)
        ELSE putOption.ContentLength \in SuppliedSizes

\* C17: Upload and GetUploadAuthWithExpire never return the pair
\* (no result, no error).
C17_UnsupportedIsSignalled ==
    (op \in {"Upload", "GetUploadAuthWithExpire"} /\ pc = "done") => ~(out = NilOut /\ err = NoErr)

\* ------------------------------------------------------------- parseCosTime
\* time.Time{}: a time.Time is its civil fields and the zone offset in seconds
\* east of UTC.
ZeroTime ==
    [year |-> 1, month |-> 1, day |-> 1, hour |-> 0, min |-> 0, sec |-> 0,
     nsec |-> 0, offset |-> 0]

\* time.daysIn(m, year)
DaysIn(mo, y) ==
    IF mo = 2 THEN (IF y % 4 = 0 /\ (y % 100 # 0 \/ y % 400 = 0) THEN 29 ELSE 28)
    ELSE IF mo \in {4, 6, 9, 11} THEN 30 ELSE 31
IsDigitAt(s, i) == i <= Len(s) /\ IsDigit(s[i])
Drop(s, n) == SubSeq(s, n + 1, Len(s))
Failed == [ok |-> FALSE]
Num(n, rest) == [ok |-> TRUE, n |-> n, rest |-> rest]

\* time.getnum(s, fixed): one or two digits, two required when fixed
GetNum(s, fixed) ==
    IF ~IsDigitAt(s, 1) THEN Failed
    ELSE IF ~IsDigitAt(s, 2)
    THEN (IF fixed THEN Failed ELSE Num(DigitVal(s[1]), Drop(s, 1)))
    ELSE Num(DigitVal(s[1]) * 10 + DigitVal(s[2]), Drop(s, 2))

\* time.atoi(s): an optional sign, then digits only
Atoi(s) ==
    LET neg  == s # <<>> /\ Head(s) = "-"
        body == IF s # <<>> /\ Head(s) \in {"+", "-"} THEN Tail(s) ELSE s
    IN  IF body = <<>> \/ \E i \in 1..Len(body) : ~IsDigit(body[i]) THEN Failed
        ELSE Num(IF neg THEN 0 - ParseDigits(body, 0) ELSE ParseDigits(body, 0), <<>>)

\* number of digits of s from position i on
RECURSIVE DigitRun(_, _)
DigitRun(s, i) == IF IsDigitAt(s, i) THEN 1 + DigitRun(s, i + 1) ELSE 0

\* time.parseNanoseconds(value, nbytes): value[0] is '.' or ',', value[1:nbytes]
\* a non-negative number, at most nine digits of it are kept
ParseNanoseconds(s, nbytes) ==
    LET kept  == IF nbytes > 10 THEN 10 ELSE nbytes
        a     == Atoi(SubSeq(s, 2, kept))
        scale == <<100000000, 10000000, 1000000, 100000, 10000, 1000, 100, 10, 1>>
    IN  IF s = <<>> \/ Head(s) \notin {".", ","} THEN Failed
        ELSE IF ~a.ok THEN Failed
        ELSE IF a.n < 0 THEN Failed
        ELSE Num(a.n * scale[kept - 1], Drop(s, nbytes))

UpperLetters ==
    <<"A", "B", "C", "D", "E", "F", "G", "H", "I", "J", "K", "L", "M", "N", "O",
      "P", "Q", "R", "S", "T", "U", "V", "W", "X", "Y", "Z">>
LowerLetters ==
    <<"a", "b", "c", "d", "e", "f", "g", "h", "i", "j", "k", "l", "m", "n", "o",
      "p", "q", "r", "s", "t", "u", "v", "w", "x", "y", "z">>
IsUpper(c) == \E i \in 1..26 : UpperLetters[i] = c
ToLower(c) ==
    IF IsUpper(c) THEN LowerLetters[CHOOSE i \in 1..26 : UpperLetters[i] = c] ELSE c

shortDayNames == <<<<"S", "u", "n">>, <<"M", "o", "n">>, <<"T", "u", "e">>, <<"W", "e", "d">>, <<"T", "h", "u">>, <<"F", "r", "i">>, <<"S", "a", "t">>>>
longDayNames ==
    <<<<"S", "u", "n", "d", "a", "y">>, <<"M", "o", "n", "d", "a", "y">>, <<"T", "u", "e", "s", "d", "a", "y">>, <<"W", "e", "d", "n", "e", "s", "d", "a", "y">>, <<"T", "h", "u", "r", "s", "d", "a", "y">>, <<"F", "r", "i", "d", "a", "y">>, <<"S", "a", "t", "u", "r", "d", "a", "y">>>>
shortMonthNames ==
    <<<<"J", "a", "n">>, <<"F", "e", "b">>, <<"M", "a", "r">>, <<"A", "p", "r">>, <<"M", "a", "y">>, <<"J", "u", "n">>, <<"J", "u", "l">>, <<"A", "u", "g">>, <<"S", "e", "p">>, <<"O", "c", "t">>, <<"N", "o", "v">>, <<"D", "e", "c">>>>

\* time.lookup(tab, val): the first name val starts with, letter case ignored
Lookup(tab, val) ==
    LET NameMatches(name, v) ==
            /\ Len(v) >= Len(name)
            /\ \A i \in 1..Len(name) : ToLower(v[i]) = ToLower(name[i])
    IN
    IF \E i \in 1..Len(tab) : NameMatches(tab[i], val)
    THEN LET i == CHOOSE k \in 1..Len(tab) :
                    /\ NameMatches(tab[k], val)
                    /\ \A j \in 1..(k - 1) : ~NameMatches(tab[j], val)
         IN  Num(i, Drop(val, Len(tab[i])))
    ELSE Failed

\* time.parseTimeZone for the abbreviations of three capital letters, or four
\* ending in T; an abbreviation the local zone does not define has offset 0.
ParseTimeZone(s) ==
    LET nUpper == IF Len(s) >= 1 /\ IsUpper(s[1])
                  THEN (IF Len(s) >= 2 /\ IsUpper(s[2])
                        THEN (IF Len(s) >= 3 /\ IsUpper(s[3])
                              THEN (IF Len(s) >= 4 /\ IsUpper(s[4])
                                    THEN (IF Len(s) >= 5 /\ IsUpper(s[5]) THEN 5 ELSE 4)
                                    ELSE 3)
                              ELSE 2)
                        ELSE 1)
                  ELSE 0
    IN  IF nUpper = 3 THEN Num(0, Drop(s, 3))
        ELSE IF nUpper = 4 /\ s[4] = "T" THEN Num(0, Drop(s, 4))
        ELSE Failed

\* One element of a layout as time.nextStdChunk cuts it: literal text, or a
\* reference-time chunk named by its text in the layout.
Lit(s) == [std |-> "", lit |-> s]
Std(name) == [std |-> name, lit |-> <<>>]

Keep(t, rest) == [ok |-> TRUE, t |-> t, rest |-> rest]

\* The case of time.Parse's loop for one chunk: t is what was parsed so far,
\* v the rest of the value, next the chunk that follows in the layout.
ParseChunk(chunk, next, t, v) ==
    LET std == chunk.std
    IN
    IF std = "" THEN
        (IF HasPrefix(v, chunk.lit) THEN Keep(t, Drop(v, Len(chunk.lit))) ELSE Failed)
    ELSE IF std = "2006" THEN
        (IF Len(v) >= 4 /\ \A i \in 1..4 : IsDigit(v[i])
         THEN Keep([t EXCEPT !.year = ParseDigits(SubSeq(v, 1, 4), 0)], Drop(v, 4))
         ELSE Failed)
    ELSE IF std = "06" THEN
        (IF Len(v) >= 2 /\ Atoi(SubSeq(v, 1, 2)).ok
         THEN LET y == Atoi(SubSeq(v, 1, 2)).n
              IN  Keep([t EXCEPT !.year = IF y >= 69 THEN y + 1900 ELSE y + 2000],
                       Drop(v, 2))
         ELSE Failed)
    ELSE IF std = "01" THEN
        (LET r == GetNum(v, TRUE)
         IN  IF r.ok /\ r.n >= 1 /\ r.n <= 12
             THEN Keep([t EXCEPT !.month = r.n], r.rest) ELSE Failed)
    ELSE IF std = "Jan" THEN
        (LET r == Lookup(shortMonthNames, v)
         IN  IF r.ok THEN Keep([t EXCEPT !.month = r.n], r.rest) ELSE Failed)
    ELSE IF std = "Mon" THEN
        (LET r == Lookup(shortDayNames, v)
         IN  IF r.ok THEN Keep(t, r.rest) ELSE Failed)
    ELSE IF std = "Monday" THEN
        (LET r == Lookup(longDayNames, v)
         IN  IF r.ok THEN Keep(t, r.rest) ELSE Failed)
    ELSE IF std \in {"02", "_2"} THEN
        (LET w == IF std = "_2" /\ v # <<>> /\ Head(v) = " " THEN Tail(v) ELSE v
             r == GetNum(w, std = "02")
         IN  IF r.ok THEN Keep([t EXCEPT !.day = r.n], r.rest) ELSE Failed)
    ELSE IF std = "15" THEN
        (LET r == GetNum(v, FALSE)
         IN  IF r.ok /\ r.n < 24 THEN Keep([t EXCEPT !.hour = r.n], r.rest) ELSE Failed)
    ELSE IF std = "04" THEN
        (LET r == GetNum(v, TRUE)
         IN  IF r.ok /\ r.n < 60 THEN Keep([t EXCEPT !.min = r.n], r.rest) ELSE Failed)
    ELSE IF std = "05" THEN
        (LET r == GetNum(v, TRUE)
         IN  IF ~(r.ok /\ r.n < 60) THEN Failed
             ELSE IF /\ Len(r.rest) >= 2 /\ r.rest[1] \in {".", ","} /\ IsDigitAt(r.rest, 2)
                     /\ next.std \notin {".000", ".999999999"}
             THEN \* a fractional second the layout does not mention
                  LET f == ParseNanoseconds(r.rest, 1 + DigitRun(r.rest, 2))
                  IN  IF f.ok THEN Keep([t EXCEPT !.sec = r.n, !.nsec = f.n], f.rest)
                      ELSE Failed
             ELSE Keep([t EXCEPT !.sec = r.n], r.rest))
    ELSE IF std = ".000" THEN
        (IF Len(v) < 4 THEN Failed
         ELSE LET f == ParseNanoseconds(v, 4)
              IN  IF f.ok THEN Keep([t EXCEPT !.nsec = f.n], f.rest) ELSE Failed)
    ELSE IF std = ".999999999" THEN
        (IF Len(v) < 2 \/ v[1] \notin {".", ","} \/ ~IsDigitAt(v, 2)
         THEN Keep(t, v)
         ELSE LET f == ParseNanoseconds(v, 1 + DigitRun(v, 2))
              IN  IF f.ok THEN Keep([t EXCEPT !.nsec = f.n], f.rest) ELSE Failed)
    ELSE IF std = "Z07:00" THEN
        (IF Len(v) >= 1 /\ v[1] = "Z" THEN Keep([t EXCEPT !.offset = 0], Drop(v, 1))
         ELSE IF Len(v) < 6 \/ v[4] # ":" THEN Failed
         ELSE LET hr == GetNum(SubSeq(v, 2, 3), TRUE)
                  mm == GetNum(SubSeq(v, 5, 6), TRUE)
              IN  IF ~hr.ok \/ ~mm.ok THEN Failed
                  ELSE IF hr.n > 24 \/ mm.n > 60 \/ v[1] \notin {"+", "-"} THEN Failed
                  ELSE Keep([t EXCEPT !.offset =
                                (IF v[1] = "-" THEN 0 - 1 ELSE 1) * (hr.n * 60 + mm.n) * 60],
                            Drop(v, 6)))
    ELSE IF std = "MST" THEN
        (IF HasPrefix(v, <<"U", "T", "C">>) THEN Keep([t EXCEPT !.offset = 0], Drop(v, 3))
         ELSE LET r == ParseTimeZone(v)
              IN  IF r.ok THEN Keep([t EXCEPT !.offset = 0], r.rest) ELSE Failed)
    ELSE Failed

RECURSIVE ParseChunks(_, _, _, _)
ParseChunks(layout, i, t, v) ==
    IF i > Len(layout)
    THEN \* layout used up: no extra text, and the day exists in its month
         (IF v = <<>> /\ t.day >= 1 /\ t.day <= DaysIn(t.month, t.year)
          THEN Keep(t, v) ELSE Failed)
    ELSE LET r == ParseChunk(layout[i], IF i < Len(layout) THEN layout[i + 1] ELSE Lit(<<>>),
                             t, v)
         IN  IF r.ok THEN ParseChunks(layout, i + 1, r.t, r.rest) ELSE Failed

\* time.Parse(layout, value): year, month and day default to 1, the rest to 0
TimeParse(layout, v) == ParseChunks(layout, 1, ZeroTime, v)

\* the first layout of the list, from position i on, that parses v
RECURSIVE FirstParse(_, _, _)
FirstParse(layouts, i, v) ==
    IF i > Len(layouts) THEN Failed
    ELSE IF TimeParse(layouts[i], v).ok THEN TimeParse(layouts[i], v)
    ELSE FirstParse(layouts, i + 1, v)

\* layouts := []string{time.RFC3339, time.RFC3339Nano, "2006-01-02T15:04:05.000Z"}
\*   "2006-01-02T15:04:05Z07:00", "2006-01-02T15:04:05.999999999Z07:00" and
\*   the millisecond layout, each cut into its chunks
layouts ==
    <<<<Std("2006"), Lit(<<"-">>), Std("01"), Lit(<<"-">>), Std("02"), Lit(<<"T">>), Std("15"),
        Lit(<<":">>), Std("04"), Lit(<<":">>), Std("05"), Std("Z07:00")>>,
      <<Std("2006"), Lit(<<"-">>), Std("01"), Lit(<<"-">>), Std("02"), Lit(<<"T">>), Std("15"),
        Lit(<<":">>), Std("04"), Lit(<<":">>), Std("05"), Std(".999999999"), Std("Z07:00")>>,
      <<Std("2006"), Lit(<<"-">>), Std("01"), Lit(<<"-">>), Std("02"), Lit(<<"T">>), Std("15"),
        Lit(<<":">>), Std("04"), Lit(<<":">>), Std("05"), Std(".000"), Lit(<<"Z">>)>>>>
\* http.ParseTime: timeFormats = []string{TimeFormat, time.RFC850, time.ANSIC}
\*   "Mon, 02 Jan 2006 15:04:05 GMT", "Monday, 02-Jan-06 15:04:05 MST",
\*   "Mon Jan _2 15:04:05 2006"
timeFormats ==
    <<<<Std("Mon"), Lit(<<",", " ">>), Std("02"), Lit(<<" ">>), Std("Jan"), Lit(<<" ">>), Std("2006"),
        Lit(<<" ">>), Std("15"), Lit(<<":">>), Std("04"), Lit(<<":">>), Std("05"), Lit(<<" ", "G", "M", "T">>)>>,
      <<Std("Monday"), Lit(<<",", " ">>), Std("02"), Lit(<<"-">>), Std("Jan"), Lit(<<"-">>), Std("06"),
        Lit(<<" ">>), Std("15"), Lit(<<":">>), Std("04"), Lit(<<":">>), Std("05"), Lit(<<" ">>),
        Std("MST")>>,
      <<Std("Mon"), Lit(<<" ">>), Std("Jan"), Lit(<<" ">>), Std("_2"), Lit(<<" ">>), Std("15"),
        Lit(<<":">>), Std("04"), Lit(<<":">>), Std("05"), Lit(<<" ">>), Std("2006")>>>>

\* if t, err := http.ParseTime(value); err == nil { return t }; return time.Time{}
HttpFallbackDropped(v) == ZeroTime
HttpFallback(v) ==
    IF FirstParse(timeFormats, 1, v).ok THEN FirstParse(timeFormats, 1, v).t
    ELSE ZeroTime

parseCosTime(v) ==
    IF v = <<>> THEN ZeroTime
    ELSE IF FirstParse(layouts, 1, v).ok THEN FirstParse(layouts, 1, v).t
    ELSE HttpFallback(v)

\* Last-Modified values a remote can send.
TimeValues ==
    LET dates   == {<<"2", "0", "2", "5", "-", "0", "1", "-", "0", "2">>, <<"0", "0", "0", "1", "-", "0", "1", "-", "0", "1">>, <<"2", "0", "2", "5", "-", "0", "2", "-", "3", "0">>, <<"2", "0", "2", "5", "-", "1", "3", "-", "0", "1">>, <<"2", "0", "2", "4", "-", "0", "2", "-", "2", "9">>}
        clocks  == {<<"T", "0", "3", ":", "0", "4", ":", "0", "5">>, <<"T", "0", "0", ":", "0", "0", ":", "0", "0">>, <<"T", "3", ":", "0", "4", ":", "0", "5">>, <<" ", "0", "3", ":", "0", "4", ":", "0", "5">>, <<"T", "0", "3", ":", "0", "4", ":", "6", "0">>}
        fracs   == {<<>>, <<".", "0", "0", "0">>, <<".", "5">>, <<".", "1", "2", "3", "4", "5", "6", "7", "8", "9">>, <<".">>}
        zones   == {<<"Z">>, <<"+", "0", "8", ":", "0", "0">>, <<>>, <<"-", "0", "0", ":", "3", "0">>}
        http    == {<<"W", "e", "d", ",", " ", "0", "2", " ", "O", "c", "t", " ", "2", "0", "0", "2", " ", "0", "8", ":", "0", "0", ":", "0", "0", " ", "G", "M", "T">>, <<"M", "o", "n", ",", " ", "0", "1", " ", "J", "a", "n", " ", "0", "0", "0", "1", " ", "0", "0", ":", "0", "0", ":", "0", "0", " ", "G", "M", "T">>,
                    <<"W", "e", "d", ",", " ", "0", "2", " ", "O", "c", "t", " ", "2", "0", "0", "2", " ", "0", "8", ":", "0", "0", ":", "0", "0", " ", "U", "T", "C">>, <<"W", "e", "d", "n", "e", "s", "d", "a", "y", ",", " ", "0", "2", "-", "O", "c", "t", "-", "0", "2", " ", "0", "8", ":", "0", "0", ":", "0", "0", " ", "G", "M", "T">>,
                    <<"W", "e", "d", " ", "O", "c", "t", " ", " ", "2", " ", "0", "8", ":", "0", "0", ":", "0", "0", " ", "2", "0", "0", "2">>, <<"w", "e", "d", ",", " ", "3", "1", " ", "F", "e", "b", " ", "2", "0", "0", "2", " ", "0", "8", ":", "0", "0", ":", "0", "0", " ", "G", "M", "T">>}
    IN  {d \o c \o f \o z : d \in dates, c \in clocks, f \in fracs, z \in zones}
            \cup http \cup {<<>>, <<"y", "e", "s", "t", "e", "r", "d", "a", "y">>}

InitTime ==
    /\ InitStorage
    /\ bucketName = <<"b">>
    /\ endpoint = <<>>
    /\ region = <<"r">>
    /\ baseURL = NilURL
    /\ rebuilt = NilURL
    /\ exist = FALSE
    /\ client = NilClient
    /\ content = <<>>
    /\ opts = <<>>
    /\ option = NilOut
    /\ putOption = NilOut
    /\ value \in TimeValues
    /\ parsed = NilOut

\* parsed := parseCosTime(value)
ParseCosTime ==
    /\ pc = "idle"
    /\ op' = "parseCosTime"
    /\ parsed' = parseCosTime(value)
    /\ pc' = "done"
    /\ UNCHANGED <<input, opt, remoteErr, callerCancelled, out, err, calls, value>>
    /\ UNCHANGED <<bucketName, endpoint, region, baseURL, rebuilt, exist, client>>
    /\ UNCHANGED <<content, opts, option, putOption>>
    /\ UNCHANGED <<pageVars, allVars, headVars>>

NextTime == ParseCosTime

SpecTime == InitTime /\ [][NextTime]_vars

TimeDone == op = "parseCosTime" /\ pc = "done"
RECURSIVE DaysBeforeMonth(_, _)
DaysBeforeMonth(mo, y) ==
    IF mo <= 1 THEN 0 ELSE DaysBeforeMonth(mo - 1, y) + DaysIn(mo - 1, y)
\* days from 0001-01-01 to the civil date
DaysSince(y, mo, d) ==
    365 * (y - 1) + ((y - 1) \div 4) - ((y - 1) \div 100) + ((y - 1) \div 400)
        + DaysBeforeMonth(mo, y) + (d - 1)
\* the instant a time.Time denotes: days and seconds since 0001-01-01T00:00:00Z
Instant(t) ==
    LET secs == t.hour * 3600 + t.min * 60 + t.sec - t.offset
    IN  [days |-> DaysSince(t.year, t.month, t.day) + (secs \div 86400),
         sec |-> secs % 86400, nsec |-> t.nsec]
\* t.IsZero()
IsZero(t) == Instant(t) = [days |-> 0, sec |-> 0, nsec |-> 0]
\* t.UTC().Year()
YearUTC(t) ==
    CHOOSE y \in {t.year - 1, t.year, t.year + 1} :
        /\ DaysSince(y, 1, 1) <= Instant(t).days
        /\ Instant(t).days < DaysSince(y + 1, 1, 1)
\* the layouts in the order the claim gives them: RFC3339, RFC3339 with
\* fraction, millisecond layout, then the HTTP-date formats
OrderedLayouts == layouts \o timeFormats
Accepts(layout) == value # <<>> /\ TimeParse(layout, value).ok
IsTimeValue(t) == DOMAIN t = DOMAIN ZeroTime
FirstWins ==
    \A i \in 1..Len(OrderedLayouts) :
        (Accepts(OrderedLayouts[i]) /\ \A j \in 1..(i - 1) : ~Accepts(OrderedLayouts[j]))
            => parsed = TimeParse(OrderedLayouts[i], value).t
NoneAccepts == \A i \in 1..Len(OrderedLayouts) : ~Accepts(OrderedLayouts[i])
ValidHttpDate == Accepts(timeFormats[1])

\* C16: parseCosTime always returns a timestamp; the empty string and a string
\* no layout accepts give the zero timestamp; otherwise the result is that of
\* the first layout that parses, in the order RFC3339, RFC3339 with fraction,
\* millisecond layout, HTTP-date; "2025-01-02T03:04:05.000Z" gives year 2025
\* and every valid HTTP-date gives a non-zero timestamp.
C16_FirstLayoutWins ==
    TimeDone =>
        /\ IsTimeValue(parsed)
        /\ NoneAccepts => parsed = ZeroTime
        /\ FirstWins
        /\ value = <<"2", "0", "2", "5", "-", "0", "1", "-", "0", "2", "T", "0", "3", ":", "0", "4", ":", "0", "5", ".", "0", "0", "0", "Z">> => YearUTC(parsed) = 2025
        /\ ValidHttpDate => ~IsZero(parsed)

\* C16 (as the code has it): the same, except that an HTTP-date is promised a
\* non-zero timestamp only when it is not the zero instant itself,
\* "Mon, 01 Jan 0001 00:00:00 GMT".
C16_FirstLayoutWinsButZeroInstant ==
    TimeDone =>
        /\ IsTimeValue(parsed)
        /\ NoneAccepts => parsed = ZeroTime
        /\ FirstWins
        /\ value = <<"2", "0", "2", "5", "-", "0", "1", "-", "0", "2", "T", "0", "3", ":", "0", "4", ":", "0", "5", ".", "0", "0", "0", "Z">> => YearUTC(parsed) = 2025
        /\ (ValidHttpDate /\ value # <<"M", "o", "n", ",", " ", "0", "1", " ", "J", "a", "n", " ", "0", "0", "0", "1", " ", "0", "0", ":", "0", "0", ":", "0", "0", " ", "G", "M", "T">>) => ~IsZero(parsed)

C16_Witness ==
    /\ TimeDone
    /\ value = <<"W", "e", "d", ",", " ", "0", "2", " ", "O", "c", "t", " ", "2", "0", "0", "2", " ", "0", "8", ":", "0", "0", ":", "0", "0", " ", "G", "M", "T">>
    /\ parsed = [ZeroTime EXCEPT !.year = 2002, !.month = 10, !.day = 2, !.hour = 8]
    /\ ~IsZero(parsed)

====
